---- MODULE Spec2Model ----
(***************************************************************************)
(* Model of the commit-tracking service: the GitHub webhook controller     *)
(* (signature check, push handling, commit log, doc sync), the HTTP front  *)
(* end's route table and the local process-commit script.                  *)
(***************************************************************************)
EXTENDS Integers, Sequences, FiniteSets, TLC

VARIABLES
  secret,         \* process.env.GITHUB_WEBHOOK_SECRET ("" when unset)
  docsId,         \* process.env.GOOGLE_DOCS_ID is set
  credPath,       \* process.env.GOOGLE_APPLICATION_CREDENTIALS is set
  logsDirExists,  \* the logs directory exists on disk
  commitsLog,     \* content of logs/commits.log, one element per appended chunk
  processedLog,   \* content of logs/processed-commits.log
  doc,            \* the remote document, a sequence of text units ending in NL
  initialized,    \* googleDocsSync.initialized
  last,           \* the request in flight and what its handler did
  calls           \* the appendToDocument calls in flight, by call number

vars == <<secret, docsId, credPath, logsDirExists, commitsLog, processedLog,
          doc, initialized, last, calls>>

\* ------------------------------------------------------------------ bounds

\* Total number of chunks the two log files may hold in a checked run.
MaxLog == 2

\* Longest changed-file list given to the formatter.
MaxFiles == 2

\* Number of appendToDocument calls that may be in flight together.
MaxCalls == 3

\* --------------------------------------------------------- inputs: strings

\* Length of 'sha256=' followed by the 64 hex digits of a SHA-256 digest.
DigestLen == 71

\* A header string of another length than a digest string.
ShortLen == 10

Keys == {"k1", "k2"}

NoEvent == "undefined"

Events == {NoEvent, "push", "ping"}

Timestamps == {"T1"}

NL == "NL"

\* JavaScript truthiness of a string-or-undefined value.
Truthy(s) == s # "undefined" /\ s # ""

\* ------------------------------------------------------- inputs: payloads

Commit(id, hasCommitter, hasLists, added, modified, removed) ==
  [id |-> id, hasCommitter |-> hasCommitter, hasLists |-> hasLists,
   added |-> added, modified |-> modified, removed |-> removed]

CommitA == Commit("c1", TRUE, TRUE, <<"new.txt">>, <<"mod.txt">>, <<>>)
CommitB == Commit("c2", TRUE, TRUE, <<>>, <<>>, <<"old.txt">>)
CommitNoCommitter == Commit("c3", FALSE, TRUE, <<>>, <<"mod.txt">>, <<>>)
CommitNoLists == Commit("c4", TRUE, FALSE, <<>>, <<>>, <<>>)

Payload(hasCommits, commits, hasPusher, hasRepository, hasRef) ==
  [hasCommits |-> hasCommits, commits |-> commits, hasPusher |-> hasPusher,
   hasRepository |-> hasRepository, hasRef |-> hasRef,
   ref |-> <<"refs", "heads", "main">>, before |-> "c0"]

PEmptyObject == Payload(FALSE, <<>>, FALSE, FALSE, FALSE)
PNoCommits == Payload(TRUE, <<>>, TRUE, TRUE, TRUE)
POne == Payload(TRUE, <<CommitA>>, TRUE, TRUE, TRUE)
PTwo == Payload(TRUE, <<CommitA, CommitB>>, TRUE, TRUE, TRUE)
PNoPusher == Payload(TRUE, <<CommitA>>, FALSE, TRUE, TRUE)
PBadCommit == Payload(TRUE, <<CommitA, CommitNoCommitter>>, TRUE, TRUE, TRUE)
PBadLists == Payload(TRUE, <<CommitNoLists>>, TRUE, TRUE, TRUE)

Payloads == {PEmptyObject, PNoCommits, POne, PTwo, PNoPusher, PBadCommit, PBadLists}

\* A request body as received: the bytes of a JSON text.  Two texts differ
\* when they denote different objects or lay the same object out differently.
Formats == {"compact", "spaced"}

RawBody(obj, fmt) == [obj |-> obj, fmt |-> fmt]

RawBodies ==
  {RawBody(p, "compact") : p \in Payloads}
    \cup {RawBody(p, "spaced") : p \in {PNoCommits, POne}}

\* express.json(): req.body is the parsed object, the layout is lost.
JSONparse(raw) == raw.obj

\* JSON.stringify(value): the compact text of the object.
JSONstringify(obj) == RawBody(obj, "compact")

\* ------------------------------------------------------ inputs: signatures

\* crypto.createHmac('sha256', key).update(msg): an ideal keyed hash, equal
\* digests only for equal key and message.
Hmac(key, msg) == [key |-> key, msg |-> msg]

NoMac == [key |-> "none", msg |-> RawBody(PEmptyObject, "compact")]

\* A header value: undefined, or a string of a length carrying some text.
SigAbsent == [kind |-> "undefined", len |-> 0, mac |-> NoMac]
SigString(len, mac) == [kind |-> "string", len |-> len, mac |-> mac]

\* 'sha256=' + hmac.digest('hex')
DigestString(mac) == SigString(DigestLen, mac)

SigTruthy(sig) == sig.kind = "string" /\ sig.len > 0

\* What a sender holding key k sends for the bytes m.
Sign(k, m) == DigestString(Hmac(k, m))

SignaturesFor(raw) ==
  {SigAbsent, SigString(0, NoMac), SigString(ShortLen, NoMac), SigString(DigestLen, NoMac)}
    \cup {Sign(k, raw) : k \in Keys}
    \cup {Sign("k1", JSONstringify(JSONparse(raw)))}

Request(event, sig, raw) == [event |-> event, sig |-> sig, raw |-> raw]

Requests ==
  UNION {{Request(e, s, r) : e \in Events, s \in SignaturesFor(r)} : r \in RawBodies}

\* ------------------------------------------------------------- file system

\* What the file system does to the calls of one operation.
FsOutcomes == {"ok", "mkdirFails", "appendFails"}

\* The mutable world an operation works on.
World ==
  [logsDirExists |-> logsDirExists, commitsLog |-> commitsLog,
   processedLog |-> processedLog, doc |-> doc, initialized |-> initialized]

\* AppendFile with fs.writeFile in place of fs.appendFile.
AppendFile_Overwrite(file, content) == <<content>>

\* fs.appendFile(file, content): the old content followed by the new chunk.
AppendFile(file, content) == Append(file, content)

\* appendToCommitLog writing the chunk to both log files.
appendToCommitLog_BothSinks(w, content, fx) ==
  IF ~w.logsDirExists /\ fx = "mkdirFails"
  THEN [w |-> w, threw |-> "mkdir", attempted |-> {}]
  ELSE LET w1 == [w EXCEPT !.logsDirExists = TRUE] IN
       IF fx = "appendFails"
       THEN [w |-> w1, threw |-> "append", attempted |-> {"commits.log"}]
       ELSE [w |-> [w1 EXCEPT !.commitsLog = Append(@, content),
                              !.processedLog = Append(@, content)],
             threw |-> "none", attempted |-> {"commits.log", "processed-commits.log"}]

\* appendToCommitLog(content): create the logs directory when fs.access
\* fails, then append to commits.log; every failure is rethrown.
appendToCommitLog(w, content, fx) ==
  IF ~w.logsDirExists /\ fx = "mkdirFails"
  THEN [w |-> w, threw |-> "mkdir", attempted |-> {}]
  ELSE LET w1 == [w EXCEPT !.logsDirExists = TRUE] IN
       IF fx = "appendFails"
       THEN [w |-> w1, threw |-> "append", attempted |-> {"commits.log"}]
       ELSE [w |-> [w1 EXCEPT !.commitsLog = AppendFile(@, content)],
             threw |-> "none", attempted |-> {"commits.log"}]

\* ---------------------------------------------------------------- doc sync

\* What the document API does to the calls of one operation.
DocOutcomes == {"ok", "authThrows", "getThrows", "updateThrows"}

\* documents.batchUpdate insertText at a 1-based index: the text lands
\* before the unit that was at that index.
InsertText(d, index, text) ==
  SubSeq(d, 1, index - 1) \o <<text>> \o SubSeq(d, index, Len(d))

\* The endIndex of the last structural element of the document body.
EndIndex(d) == Len(d) + 1

\* initialize without the check of GOOGLE_APPLICATION_CREDENTIALS.
initialize_NoCredCheck(w, dx) ==
  IF dx = "authThrows" THEN [w |-> w, ret |-> FALSE]
  ELSE [w |-> [w EXCEPT !.initialized = TRUE], ret |-> TRUE]

\* GoogleDocsSync.initialize(): false without a credential path or when the
\* client cannot be built, else the client is kept and initialized is set.
initialize(w, dx) ==
  IF ~credPath THEN [w |-> w, ret |-> FALSE]
  ELSE IF dx = "authThrows" THEN [w |-> w, ret |-> FALSE]
  ELSE [w |-> [w EXCEPT !.initialized = TRUE], ret |-> TRUE]

\* GoogleDocsSync.appendToDocument(content): never throws; the requests it
\* issued to the document API are returned with the result.
appendToDocument(w, content, dx) ==
  LET i == IF w.initialized THEN [w |-> w, ret |-> TRUE] ELSE initialize(w, dx) IN
  IF ~i.ret THEN [w |-> i.w, ret |-> FALSE, requests |-> <<>>]
  ELSE IF ~docsId THEN [w |-> i.w, ret |-> FALSE, requests |-> <<>>]
  ELSE IF dx = "getThrows" THEN [w |-> i.w, ret |-> FALSE, requests |-> <<"get">>]
  ELSE LET endIndex == EndIndex(i.w.doc) IN
       IF dx = "updateThrows"
       THEN [w |-> i.w, ret |-> FALSE, requests |-> <<"get", "batchUpdate">>]
       ELSE [w |-> [i.w EXCEPT !.doc = InsertText(@, endIndex - 1, content)],
             ret |-> TRUE, requests |-> <<"get", "batchUpdate">>]

NoSync == [called |-> FALSE, ret |-> FALSE, requests |-> <<>>]

\* githubController.syncToGoogleDocs(content): skipped unless both settings
\* are present; a failed sync is logged and never rethrown.
syncToGoogleDocs(w, content, dx) ==
  IF ~docsId \/ ~credPath THEN [w |-> w, obs |-> NoSync]
  ELSE LET r == appendToDocument(w, content, dx) IN
       [w |-> r.w, obs |-> [called |-> TRUE, ret |-> r.ret, requests |-> r.requests]]

\* ------------------------------------------------------ signature verifier

\* crypto.timingSafeEqual(a, b): a RangeError when the byte lengths differ,
\* else whether the buffers are equal.
timingSafeEqual(a, b) ==
  IF a.len # b.len
  THEN [called |-> TRUE, threw |-> TRUE, ret |-> FALSE, tse |-> TRUE]
  ELSE [called |-> TRUE, threw |-> FALSE, ret |-> (a = b), tse |-> TRUE]

NoVerify == [called |-> FALSE, threw |-> FALSE, ret |-> FALSE, tse |-> FALSE]

\* verifyGithubWebhook(payload, signature): the digest is taken over
\* JSON.stringify of the parsed payload.
verifyGithubWebhook(payload, signature) ==
  IF ~SigTruthy(signature) \/ ~Truthy(secret)
  THEN [called |-> TRUE, threw |-> FALSE, ret |-> FALSE, tse |-> FALSE]
  ELSE LET digest == DigestString(Hmac(secret, JSONstringify(payload))) IN
       timingSafeEqual(digest, signature)

\* -------------------------------------------------------------- push event

RECURSIVE FileLines(_, _)
\* files.forEach(file => commitLog += `  <symbol> <file>\n`)
FileLines(symbol, files) ==
  IF files = <<>> THEN <<>>
  ELSE <<<<symbol, Head(files)>>>> \o FileLines(symbol, Tail(files))

\* One titled block per non-empty file list.
FileBlock(title, symbol, files) ==
  IF Len(files) > 0 THEN <<<<title>>>> \o FileLines(symbol, files) \o <<<<"">>>>
  ELSE <<>>

\* payload.ref.replace('refs/heads/', '')
Branch(ref) ==
  IF Len(ref) >= 2 /\ ref[1] = "refs" /\ ref[2] = "heads"
  THEN SubSeq(ref, 3, Len(ref)) ELSE ref

\* The lines handlePushEvent writes for one commit.
CommitLines(commit, previousCommit) ==
  << <<"rule80">>, <<"Committer", commit.id>>, <<"Commit ID", commit.id>>,
     <<"Previous Commit", previousCommit>>, <<"Message", commit.id>>, <<"">> >>
    \o FileBlock("Added Files:", "+", commit.added)
    \o FileBlock("Modified Files:", "~", commit.modified)
    \o FileBlock("Removed Files:", "-", commit.removed)
    \o << <<"">> >>

RECURSIVE AllCommitLines(_, _)
AllCommitLines(commits, previousCommit) ==
  IF commits = <<>> THEN <<>>
  ELSE CommitLines(Head(commits), previousCommit)
         \o AllCommitLines(Tail(commits), previousCommit)

\* The text handlePushEvent builds: repository header, then the commits.
FormatPush(payload, now) ==
  << <<"Repository">>, <<"Branch", Branch(payload.ref)>>, <<"Pushed by">>,
     <<"Date", now>>, <<"">> >>
    \o AllCommitLines(payload.commits, payload.before)

\* NoCommits without the length test.
NoCommits_AbsentOnly(payload) == ~payload.hasCommits

\* !commits || commits.length === 0
NoCommits(payload) == ~payload.hasCommits \/ Len(payload.commits) = 0

\* A property read on an undefined field of the payload raises a TypeError.
PayloadThrows(payload) ==
  \/ ~payload.hasPusher
  \/ ~payload.hasRepository
  \/ ~payload.hasRef
  \/ \E i \in 1..Len(payload.commits) :
       ~payload.commits[i].hasCommitter \/ ~payload.commits[i].hasLists

\* handlePushEvent with the doc sync ahead of the log append.
handlePushEvent_SyncFirst(w, payload, now, fx, dx) ==
  IF NoCommits(payload)
  THEN [w |-> w, threw |-> "none", attempted |-> {}, sync |-> NoSync]
  ELSE IF PayloadThrows(payload)
  THEN [w |-> w, threw |-> "TypeError", attempted |-> {}, sync |-> NoSync]
  ELSE LET commitLog == FormatPush(payload, now)
           s == syncToGoogleDocs(w, commitLog, dx)
           a == appendToCommitLog(s.w, commitLog, fx)
       IN [w |-> a.w, threw |-> a.threw, attempted |-> a.attempted, sync |-> s.obs]

\* handlePushEvent(payload): format, append to the log, then sync; every
\* exception is logged and rethrown.
handlePushEvent(w, payload, now, fx, dx) ==
  IF NoCommits(payload)
  THEN [w |-> w, threw |-> "none", attempted |-> {}, sync |-> NoSync]
  ELSE IF PayloadThrows(payload)
  THEN [w |-> w, threw |-> "TypeError", attempted |-> {}, sync |-> NoSync]
  ELSE LET commitLog == FormatPush(payload, now)
           a == appendToCommitLog(w, commitLog, fx)
       IN IF a.threw # "none"
          THEN [w |-> a.w, threw |-> a.threw, attempted |-> a.attempted, sync |-> NoSync]
          ELSE LET s == syncToGoogleDocs(a.w, commitLog, dx) IN
               [w |-> s.w, threw |-> "none", attempted |-> a.attempted, sync |-> s.obs]

\* ---------------------------------------------------------- GitHub handler

Response(status, success, message, error) ==
  [status |-> status, success |-> success, message |-> message, error |-> error]

\* MissingEventHeader reading a header that is always present.
MissingEventHeader_Never(req) == FALSE

\* !githubEvent
MissingEventHeader(req) == ~Truthy(req.event)

\* IsPushEvent with the push case as the default of the switch.
IsPushEvent_Always(event) == TRUE

\* case 'push' of the switch on the event type
IsPushEvent(event) == event = "push"

\* ErrorResponse answering with the success status.
ErrorResponse_Ok(error) ==
  [status |-> 200, success |-> TRUE, message |-> "Error processing GitHub webhook",
   error |-> error]

\* The catch block of handleGithubWebhook.
ErrorResponse(error) ==
  Response(500, FALSE, "Error processing GitHub webhook", error)

Observed(req, fx, dx, res, verify, raised, attempted, sync) ==
  [op |-> "github", req |-> req, fs |-> fx, docApi |-> dx, res |-> res,
   verify |-> verify, raised |-> raised, attempted |-> attempted, sync |-> sync]

\* handleGithubWebhook(req, res): header check, signature check when a
\* secret is configured, dispatch on the event type, respond.
handleGithubWebhook(w, req, now, fx, dx) ==
  LET body == JSONparse(req.raw) IN
  IF MissingEventHeader(req)
  THEN [w |-> w, obs |-> Observed(req, fx, dx,
          Response(400, FALSE, "Missing X-GitHub-Event header", "none"),
          NoVerify, "none", {}, NoSync)]
  ELSE LET v == IF Truthy(secret) THEN verifyGithubWebhook(body, req.sig) ELSE NoVerify IN
       IF v.threw
       THEN [w |-> w, obs |-> Observed(req, fx, dx, ErrorResponse("RangeError"),
               v, "RangeError", {}, NoSync)]
       ELSE IF Truthy(secret) /\ ~v.ret
       THEN [w |-> w, obs |-> Observed(req, fx, dx,
               Response(401, FALSE, "Invalid webhook signature", "none"),
               v, "none", {}, NoSync)]
       ELSE IF IsPushEvent(req.event)
       THEN LET p == handlePushEvent(w, body, now, fx, dx) IN
            IF p.threw # "none"
            THEN [w |-> p.w, obs |-> Observed(req, fx, dx, ErrorResponse(p.threw),
                    v, p.threw, p.attempted, p.sync)]
            ELSE [w |-> p.w, obs |-> Observed(req, fx, dx,
                    Response(200, TRUE, "Successfully processed", "none"),
                    v, "none", p.attempted, p.sync)]
       ELSE [w |-> w, obs |-> Observed(req, fx, dx,
               Response(200, TRUE, "Successfully processed", "none"),
               v, "none", {}, NoSync)]

\* ---------------------------------------------------------- HTTP front end

Route(method, path, handler) == [method |-> method, path |-> path, handler |-> handler]

\* The routes each router module registers.
RouterRoutes(router) ==
  CASE router = "index" -> {Route("GET", <<>>, "welcome")}
    [] router = "webhook" -> {Route("POST", <<"webhook">>, "handleWebhook")}
    [] router = "githubWebhook" -> {Route("POST", <<"github">>, "handleGithubWebhook")}

\* app.use(prefix, router), in the order of app.js.
Mounts ==
  << [prefix |-> <<>>, router |-> "index"],
     [prefix |-> <<"api">>, router |-> "webhook"] >>

IsPrefix(p, q) == Len(p) <= Len(q) /\ SubSeq(q, 1, Len(p)) = p

\* The handlers a mounted router offers for a request: the mount prefix is
\* stripped and the rest must equal a route's path.
MountMatches(mount, method, path) ==
  IF IsPrefix(mount.prefix, path)
  THEN {r.handler : r \in {x \in RouterRoutes(mount.router) :
          x.method = method /\ x.path = SubSeq(path, Len(mount.prefix) + 1, Len(path))}}
  ELSE {}

RECURSIVE ResolveFrom(_, _, _)
\* The first mount, in order, that handles the request; else the 404 fallback.
ResolveFrom(i, method, path) ==
  IF i > Len(Mounts) THEN "notFound"
  ELSE LET hs == MountMatches(Mounts[i], method, path) IN
       IF hs # {} THEN CHOOSE h \in hs : TRUE
       ELSE ResolveFrom(i + 1, method, path)

Resolve(method, path) == ResolveFrom(1, method, path)

\* The status the front end itself answers with (0: left to the handler).
FrontEndStatus(handler) ==
  CASE handler = "notFound" -> 404
    [] handler = "welcome" -> 200
    [] OTHER -> 0

Methods == {"GET", "POST"}

Paths ==
  { <<>>, <<"api">>, <<"api", "webhook">>, <<"api", "github">>,
    <<"api", "webhook", "github">>, <<"webhook", "github">>, <<"github">> }

\* ------------------------------------------------------ process-commit.js

Argvs == { <<>>, <<"c1", "c0", "Ann", "ann@example.com", "fix", "bug">> }

Arg(argv, i) == IF Len(argv) >= i THEN argv[i] ELSE "undefined"

\* commitMsgParts.join(' ')
RECURSIVE Join(_)
Join(parts) ==
  IF parts = <<>> THEN <<>>
  ELSE IF Len(parts) = 1 THEN parts
  ELSE <<Head(parts), " ">> \o Join(Tail(parts))

\* The git commands a run issues, in order.
GitCalls == <<"rev-parse", "diff-tree", "show">>

\* The git call of a run that never returns, if any: execSync is given no
\* timeout and blocks until the child exits.
GitHangs == {"none", "rev-parse", "diff-tree", "show"}

GitAllOk == [root |-> TRUE, files |-> TRUE, diff |-> TRUE, hangs |-> "none"]

\* Which of the three git calls succeed in one run and which one, if any,
\* never returns; the calls after a hanging one are not reached.
GitOutcomes ==
  {g \in [root : BOOLEAN, files : BOOLEAN, diff : BOOLEAN, hangs : GitHangs] :
     /\ g.hangs = "rev-parse" => (g.root /\ g.files /\ g.diff)
     /\ g.hangs = "diff-tree" => (g.files /\ g.diff)
     /\ g.hangs = "show" => g.diff}

\* The git calls issued up to and including the one that hangs.
CallsUntilHang(hangs) ==
  CASE hangs = "rev-parse" -> <<"rev-parse">>
    [] hangs = "diff-tree" -> <<"rev-parse", "diff-tree">>
    [] OTHER -> GitCalls

\* Output of git diff-tree --name-status, as lines of tab-separated fields;
\* the output ends in a newline, so the last line is empty.
GitFilesOutput ==
  << <<"A", "new.txt">>, <<"M", "mod.txt">>, <<"D", "old.txt">>,
     <<"R100", "a.txt", "b.txt">>, <<"">> >>

\* ''.split('\n')
EmptyOutput == << <<"">> >>

GitDiffOutput == "diff --git"

\* .filter(Boolean).map(line => { const [status, file] = line.split('\t') })
RECURSIVE ParseFiles(_)
ParseFiles(lines) ==
  IF lines = <<>> THEN <<>>
  ELSE LET l == Head(lines) IN
       IF l = <<"">> THEN ParseFiles(Tail(lines))
       ELSE <<[status |-> l[1], file |-> Arg(l, 2)]>> \o ParseFiles(Tail(lines))

\* CommitInfo with the three git calls inside one try block: a failure of
\* any call replaces every result by its fallback.
CommitInfo_SharedTry(argv, git, now) ==
  LET ok == git.root /\ git.files /\ git.diff IN
  [id |-> Arg(argv, 1), previousCommit |-> Arg(argv, 2),
   committer |-> [name |-> Arg(argv, 3), email |-> Arg(argv, 4)],
   message |-> Join(SubSeq(argv, 5, Len(argv))),
   timestamp |-> now,
   filesChanged |-> ParseFiles(IF ok THEN GitFilesOutput ELSE EmptyOutput),
   diff |-> IF ok THEN GitDiffOutput ELSE "Diff unavailable"]

\* The commit record processCommit builds from its arguments and git output.
CommitInfo(argv, git, now) ==
  [id |-> Arg(argv, 1), previousCommit |-> Arg(argv, 2),
   committer |-> [name |-> Arg(argv, 3), email |-> Arg(argv, 4)],
   message |-> Join(SubSeq(argv, 5, Len(argv))),
   timestamp |-> now,
   filesChanged |-> ParseFiles(IF git.files THEN GitFilesOutput ELSE EmptyOutput),
   diff |-> IF git.diff THEN GitDiffOutput ELSE "Diff unavailable"]

\* JSON.stringify(commitInfo, null, 2) + '\n\n'
JsonLogEntry(commitInfo) == [json |-> commitInfo, indent |-> 2, separator |-> "\n\n"]

\* logProcessedCommit(commitInfo): mkdir -p the logs directory, append the
\* JSON entry to processed-commits.log; every failure is rethrown.
logProcessedCommit(w, commitInfo, fx) ==
  IF ~w.logsDirExists /\ fx = "mkdirFails"
  THEN [w |-> w, threw |-> "mkdir", attempted |-> {}]
  ELSE LET w1 == [w EXCEPT !.logsDirExists = TRUE] IN
       IF fx = "appendFails"
       THEN [w |-> w1, threw |-> "append", attempted |-> {"processed-commits.log"}]
       ELSE [w |-> [w1 EXCEPT !.processedLog = AppendFile(@, JsonLogEntry(commitInfo))],
             threw |-> "none", attempted |-> {"processed-commits.log"}]

\* StatusSymbol with a symbol for the known status letters only.
StatusSymbol_KnownOnly(status) ==
  IF status = "A" THEN "+" ELSE IF status = "D" THEN "-"
  ELSE IF status = "M" THEN "~" ELSE "?"

\* file.status === 'A' ? '+' : file.status === 'D' ? '-' : '~'
StatusSymbol(status) ==
  IF status = "A" THEN "+" ELSE IF status = "D" THEN "-" ELSE "~"

RECURSIVE ChangedFileLines(_)
ChangedFileLines(files) ==
  IF files = <<>> THEN <<>>
  ELSE <<<<StatusSymbol(Head(files).status), Head(files).file>>>>
         \o ChangedFileLines(Tail(files))

\* formatCommitForDocs(commitInfo): the plaintext block, line by line.
formatCommitForDocs(commitInfo) ==
  << <<"==================== COMMIT DETAILS ====================">>,
     <<"Committer", commitInfo.committer.name, commitInfo.committer.email>>,
     <<"Commit ID", commitInfo.id>>,
     <<"Previous Commit", commitInfo.previousCommit>>,
     <<"Date", commitInfo.timestamp>>,
     <<"Message", commitInfo.message>>,
     <<"">>,
     <<"============ CHANGED FILES ============">> >>
    \o ChangedFileLines(commitInfo.filesChanged)
    \o << <<"">>,
          <<"============ DIFF OUTPUT ============">>,
          <<commitInfo.diff>>,
          <<"===========================================">>,
          <<"">> >>

\* What the credential file and the document API do to one run of the script.
ScriptDocOutcomes == {"ok", "credFileMissing", "authThrows", "getThrows", "updateThrows"}

\* process-commit.js syncToGoogleDocs(commitInfo): skipped unless configured
\* and the credential file is readable; a new client is built on every run;
\* every error is logged and swallowed.
scriptSyncToGoogleDocs(w, commitInfo, dx) ==
  IF ~docsId \/ ~credPath THEN [w |-> w, obs |-> NoSync]
  ELSE IF dx = "credFileMissing" \/ dx = "authThrows"
  THEN [w |-> w, obs |-> [called |-> TRUE, ret |-> FALSE, requests |-> <<>>]]
  ELSE IF dx = "getThrows"
  THEN [w |-> w, obs |-> [called |-> TRUE, ret |-> FALSE, requests |-> <<"get">>]]
  ELSE LET content == formatCommitForDocs(commitInfo)
           endIndex == EndIndex(w.doc) IN
       IF dx = "updateThrows"
       THEN [w |-> w, obs |-> [called |-> TRUE, ret |-> FALSE,
                               requests |-> <<"get", "batchUpdate">>]]
       ELSE [w |-> [w EXCEPT !.doc = InsertText(@, endIndex - 1, content)],
             obs |-> [called |-> TRUE, ret |-> TRUE,
                      requests |-> <<"get", "batchUpdate">>]]

NoCommitInfo == [id |-> "undefined"]

ScriptObserved(argv, git, fx, dx, exit, gitCalls, repoRoot, commitInfo, attempted, sync) ==
  [op |-> "processCommit", argv |-> argv, git |-> git, fs |-> fx, docApi |-> dx,
   exit |-> exit,
   gitCalls |-> gitCalls, repoRoot |-> repoRoot, commitInfo |-> commitInfo,
   attempted |-> attempted, sync |-> sync]

\* processCommit with the doc sync ahead of the log append.
processCommit_SyncFirst(w, argv, git, now, fx, dx) ==
  IF ~Truthy(Arg(argv, 1))
  THEN [w |-> w, obs |-> ScriptObserved(argv, git, fx, dx, 1, <<>>, "none",
          NoCommitInfo, {}, NoSync)]
  ELSE IF git.hangs # "none"
  THEN [w |-> w, obs |-> ScriptObserved(argv, git, fx, dx, -1, CallsUntilHang(git.hangs),
          IF git.hangs = "rev-parse" THEN "none"
          ELSE IF git.root THEN "toplevel" ELSE "cwd",
          NoCommitInfo, {}, NoSync)]
  ELSE LET repoRoot == IF git.root THEN "toplevel" ELSE "cwd"
           commitInfo == CommitInfo(argv, git, now)
           s == scriptSyncToGoogleDocs(w, commitInfo, dx)
           l == logProcessedCommit(s.w, commitInfo, fx)
       IN [w |-> l.w, obs |-> ScriptObserved(argv, git, fx, dx,
             IF l.threw # "none" THEN 1 ELSE 0, GitCalls, repoRoot,
             commitInfo, l.attempted, s.obs)]

\* processCommit(): exit 1 without a commit id; else collect git metadata
\* with fallbacks, log the record, sync it; exit 1 on any error that reaches
\* the outer catch.  A git call that never returns leaves the run blocked in
\* execSync: no exit status (-1), nothing logged.
processCommit(w, argv, git, now, fx, dx) ==
  IF ~Truthy(Arg(argv, 1))
  THEN [w |-> w, obs |-> ScriptObserved(argv, git, fx, dx, 1, <<>>, "none",
          NoCommitInfo, {}, NoSync)]
  ELSE IF git.hangs # "none"
  THEN [w |-> w, obs |-> ScriptObserved(argv, git, fx, dx, -1, CallsUntilHang(git.hangs),
          IF git.hangs = "rev-parse" THEN "none"
          ELSE IF git.root THEN "toplevel" ELSE "cwd",
          NoCommitInfo, {}, NoSync)]
  ELSE LET repoRoot == IF git.root THEN "toplevel" ELSE "cwd"
           commitInfo == CommitInfo(argv, git, now)
           l == logProcessedCommit(w, commitInfo, fx)
       IN IF l.threw # "none"
          THEN [w |-> l.w, obs |-> ScriptObserved(argv, git, fx, dx, 1, GitCalls, repoRoot,
                  commitInfo, l.attempted, NoSync)]
          ELSE LET s == scriptSyncToGoogleDocs(l.w, commitInfo, dx) IN
               [w |-> s.w, obs |-> ScriptObserved(argv, git, fx, dx, 0, GitCalls, repoRoot,
                  commitInfo, l.attempted, s.obs)]

\* ------------------------------------------------------- doc sync calls

CallIds == 1..MaxCalls

\* The text call c passes to appendToDocument.
TextOf(c) == <<"text", c>>

\* A call that has not started.
NewCall(c) ==
  [pc |-> "new", content |-> TextOf(c), initTried |-> FALSE, built |-> FALSE,
   endIndex |-> 0, requests |-> <<>>, ret |-> FALSE, order |-> 0,
   atEnd |-> FALSE]

\* ---------------------------------------------------------------- actions

Idle == [op |-> "none"]

Init ==
  /\ secret \in {"", "k1"}
  /\ docsId \in BOOLEAN
  /\ credPath \in BOOLEAN
  /\ logsDirExists = FALSE
  /\ commitsLog = <<>>
  /\ processedLog = <<>>
  /\ doc = <<NL>>
  /\ initialized = FALSE
  /\ last = Idle
  /\ calls = [c \in CallIds |-> NewCall(c)]

\* The environment outcomes that can matter to a request.
FsFor(req) ==
  IF IsPushEvent(req.event) /\ ~NoCommits(JSONparse(req.raw)) THEN FsOutcomes ELSE {"ok"}

DocFor(req) ==
  IF IsPushEvent(req.event) /\ ~NoCommits(JSONparse(req.raw)) /\ docsId /\ credPath
  THEN DocOutcomes ELSE {"ok"}

SetWorld(w) ==
  /\ logsDirExists' = w.logsDirExists
  /\ commitsLog' = w.commitsLog
  /\ processedLog' = w.processedLog
  /\ doc' = w.doc
  /\ initialized' = w.initialized

WithinBounds(w) == Len(w.commitsLog) + Len(w.processedLog) <= MaxLog

\* One call of the exported controller handleGithubWebhook.
HandleGithubWebhook ==
  /\ last = Idle
  /\ \E req \in Requests, now \in Timestamps :
       \E fx \in FsFor(req), dx \in DocFor(req) :
         LET r == handleGithubWebhook(World, req, now, fx, dx) IN
         /\ WithinBounds(r.w)
         /\ SetWorld(r.w)
         /\ last' = r.obs
  /\ UNCHANGED <<secret, docsId, credPath, calls>>

\* One run of the process-commit script.
ProcessCommit ==
  /\ last = Idle
  /\ \E argv \in Argvs, now \in Timestamps :
       \E git \in (IF Truthy(Arg(argv, 1)) THEN GitOutcomes ELSE {GitAllOk}) :
       \E fx \in (IF Truthy(Arg(argv, 1)) /\ git.hangs = "none"
                  THEN FsOutcomes ELSE {"ok"}),
          dx \in (IF Truthy(Arg(argv, 1)) /\ git.hangs = "none" /\ docsId /\ credPath
                  THEN ScriptDocOutcomes ELSE {"ok"}) :
         LET r == processCommit(World, argv, git, now, fx, dx) IN
         /\ WithinBounds(r.w)
         /\ SetWorld(r.w)
         /\ last' = r.obs
  /\ UNCHANGED <<secret, docsId, credPath, calls>>

\* One request through the front end's route table.
Dispatch ==
  /\ last = Idle
  /\ \E method \in Methods, path \in Paths :
       LET handler == Resolve(method, path) IN
       last' = [op |-> "dispatch", method |-> method, path |-> path,
                handler |-> handler, status |-> FrontEndStatus(handler)]
  /\ UNCHANGED <<secret, docsId, credPath, logsDirExists, commitsLog,
                 processedLog, doc, initialized, calls>>

\* The response has been sent and the request is over.
Close ==
  /\ last # Idle
  /\ last' = Idle
  /\ UNCHANGED <<secret, docsId, credPath, logsDirExists, commitsLog,
                 processedLog, doc, initialized, calls>>

Next ==
  \/ HandleGithubWebhook
  \/ ProcessCommit
  \/ Dispatch
  \/ Close

Spec == Init /\ [][Next]_vars

\* ------------------------------------------------- the formatter on its own

FormatStatuses == {"A", "D", "M", "R100", "?"}

FormatFiles == [status : FormatStatuses, file : {"x.txt", "y.txt"}]

FileLists == UNION {[1..n -> FormatFiles] : n \in 0..MaxFiles}

\* Commit records with every changed-file list up to the bound, with and
\* without diff text.
FormatInputs ==
  {[id |-> "c1", previousCommit |-> "c0",
    committer |-> [name |-> "Ann", email |-> "ann@example.com"],
    message |-> <<"fix">>, timestamp |-> "T1", filesChanged |-> fl, diff |-> d] :
     fl \in FileLists, d \in {"", "diff --git"}}

\* One application of formatCommitForDocs.
FormatCommit ==
  /\ last = Idle
  /\ \E commitInfo \in FormatInputs :
       last' = [op |-> "format", commitInfo |-> commitInfo,
                out |-> formatCommitForDocs(commitInfo)]
  /\ UNCHANGED <<secret, docsId, credPath, logsDirExists, commitsLog,
                 processedLog, doc, initialized, calls>>

NextFormat ==
  \/ FormatCommit
  \/ Close

SpecFormat == Init /\ [][NextFormat]_vars

\* ------------------------------------- appendToDocument, await by await

\* The guard running initialize on every call.
NeedsInitialize_Always(w) == TRUE

\* if (!this.initialized)
NeedsInitialize(w) == ~w.initialized

\* The insert offset taken from the document as it is when the insert lands.
InsertIndex_Reread(endIndex) == EndIndex(doc) - 1

\* location.index of the insertText request: endIndex - 1.
InsertIndex(endIndex) == endIndex - 1

\* A call that returned false.
ReturnFalse(call) == [call EXCEPT !.pc = "done", !.ret = FALSE]

\* From the document id check to the documents.get request.
AfterInitialize(call) ==
  IF ~docsId THEN ReturnFalse(call)
  ELSE [call EXCEPT !.pc = "getSent", !.requests = <<"get">>]

\* The number of inserts the document has taken.
Inserted == Cardinality({c \in CallIds : calls[c].order > 0})

\* appendToDocument up to its first await: initialize when the client is not
\* initialized, and with a client at hand carry on to documents.get.
StartAppend(c) ==
  /\ calls[c].pc = "new"
  /\ \E dx \in {"ok", "authThrows"} :
       /\ (~NeedsInitialize(World) \/ ~credPath) => dx = "ok"
       /\ IF NeedsInitialize(World)
          THEN LET i == initialize(World, dx) IN
               /\ initialized' = i.w.initialized
               /\ calls' = [calls EXCEPT ![c] =
                    IF ~i.ret THEN ReturnFalse([@ EXCEPT !.initTried = TRUE])
                    ELSE [@ EXCEPT !.pc = "afterInit", !.initTried = TRUE,
                                   !.built = TRUE]]
          ELSE /\ calls' = [calls EXCEPT ![c] = AfterInitialize(@)]
               /\ UNCHANGED initialized
  /\ UNCHANGED <<secret, docsId, credPath, logsDirExists, commitsLog,
                 processedLog, doc, last>>

\* After await this.initialize().
ContinueAppend(c) ==
  /\ calls[c].pc = "afterInit"
  /\ calls' = [calls EXCEPT ![c] = AfterInitialize(@)]
  /\ UNCHANGED <<secret, docsId, credPath, logsDirExists, commitsLog,
                 processedLog, doc, initialized, last>>

\* documents.get answers: the end offset is read and the insert is sent.
GetReturns(c) ==
  /\ calls[c].pc = "getSent"
  /\ \E dx \in {"ok", "getThrows"} :
       calls' = [calls EXCEPT ![c] =
         IF dx = "getThrows" THEN ReturnFalse(@)
         ELSE [@ EXCEPT !.pc = "updateSent", !.endIndex = EndIndex(doc),
                        !.requests = Append(@, "batchUpdate")]]
  /\ UNCHANGED <<secret, docsId, credPath, logsDirExists, commitsLog,
                 processedLog, doc, initialized, last>>

\* documents.batchUpdate answers: the text is in the document, or the
\* request failed and the document is as it was.
UpdateReturns(c) ==
  /\ calls[c].pc = "updateSent"
  /\ \E dx \in {"ok", "updateThrows"} :
       IF dx = "updateThrows"
       THEN /\ calls' = [calls EXCEPT ![c] = ReturnFalse(@)]
            /\ UNCHANGED doc
       ELSE /\ doc' = InsertText(doc, InsertIndex(calls[c].endIndex), calls[c].content)
            /\ calls' = [calls EXCEPT ![c] =
                 [@ EXCEPT !.pc = "done", !.ret = TRUE, !.order = Inserted + 1,
                           !.atEnd = (calls[c].endIndex = EndIndex(doc))]]
  /\ UNCHANGED <<secret, docsId, credPath, logsDirExists, commitsLog,
                 processedLog, initialized, last>>

NextDocSync ==
  \E c \in CallIds :
    \/ StartAppend(c)
    \/ ContinueAppend(c)
    \/ GetReturns(c)
    \/ UpdateReturns(c)

SpecDocSync == Init /\ [][NextDocSync]_vars

\* ------------------------------------------------ the generic webhook

\* JSON values of the request body: an omitted field, a string, a number.
Undefined == [kind |-> "undefined"]

Str(s) == [kind |-> "string", v |-> s]

Num(n) == [kind |-> "number", v |-> n]

\* JavaScript falsiness of a body value.
Falsy(v) ==
  \/ v = Undefined
  \/ v = Str("")
  \/ v = Num(0)

\* v || d
OrDefault(v, d) == IF Falsy(v) THEN d ELSE v

\* Temperatures are counted in tenths: 7 is 0.7.
DefaultTemperature == 7

DefaultMaxTokens == 500

DefaultPrompt == Str("Tell me something interesting")

DefaultModel == Str("gpt-3.5-turbo")

WebhookEvents == {Undefined, Str(""), Str("content_request"), Str("user_signup")}

DataObjects ==
  [prompt : {Undefined, Str(""), Str("hi")},
   context : {Undefined, Str("ctx")},
   model : {Undefined, Str("gpt-4")},
   temperature : {Undefined, Num(0), Num(12)},
   max_tokens : {Undefined, Num(0), Num(100)}]

\* Parsed bodies {event, data}, each field possibly omitted.
WebhookBodies == [event : WebhookEvents, data : {Undefined} \cup DataObjects]

ApiOutcomes == {"ok", "fails"}

Null == [kind |-> "null"]

\* getOpenAIClient with a client whatever the environment holds.
getOpenAIClient_AlwaysClient(apiKey) == [kind |-> "client"]

\* getOpenAIClient: null without OPENAI_API_KEY.
getOpenAIClient(apiKey) ==
  IF ~apiKey THEN Null ELSE [kind |-> "client"]

Failure(cause) == <<"Failed to generate AI content", cause>>

SystemMessage(data) ==
  IF Falsy(data.context) THEN <<"You are a helpful assistant.">>
  ELSE <<"You are a helpful assistant. Context:", data.context.v>>

\* The arguments of openai.chat.completions.create.
CompletionCall(data) ==
  [model |-> OrDefault(data.model, DefaultModel),
   system |-> SystemMessage(data),
   user |-> OrDefault(data.prompt, DefaultPrompt),
   temperature |-> OrDefault(data.temperature, Num(DefaultTemperature)),
   max_tokens |-> OrDefault(data.max_tokens, Num(DefaultMaxTokens))]

NoContent == [kind |-> "none"]

\* processContentRequest: what it returns or throws, and the completion
\* calls it made.
processContentRequest(data, apiKey, api) ==
  IF getOpenAIClient(apiKey) = Null
  THEN [threw |-> TRUE, ret |-> NoContent, apiCalls |-> <<>>,
        message |-> Failure("OpenAI client not initialized. Check your API key.")]
  ELSE IF data = Undefined
  THEN [threw |-> TRUE, ret |-> NoContent, apiCalls |-> <<>>,
        message |-> Failure("TypeError: Cannot read properties of undefined")]
  ELSE IF api = "fails"
  THEN [threw |-> TRUE, ret |-> NoContent, apiCalls |-> <<CompletionCall(data)>>,
        message |-> Failure("completion API error")]
  ELSE [threw |-> FALSE,
        ret |-> [kind |-> "content", generated_content |-> "generated text",
                 model_used |-> CompletionCall(data).model],
        apiCalls |-> <<CompletionCall(data)>>, message |-> <<>>]

WebhookResponse(status, success, data, error) ==
  [status |-> status, success |-> success, data |-> data, error |-> error]

\* !event
EventMissing(event) == Falsy(event)

\* The switch dispatching every event to the content_request case.
IsContentRequest_Always(event) == TRUE

\* case 'content_request'
IsContentRequest(event) == event = Str("content_request")

\* handleWebhook: the response and the completion calls made for it.
handleWebhook(body, apiKey, api) ==
  IF EventMissing(body.event)
  THEN [res |-> WebhookResponse(400, FALSE, Undefined, <<>>), apiCalls |-> <<>>]
  ELSE IF IsContentRequest(body.event)
  THEN LET p == processContentRequest(body.data, apiKey, api)
       IN IF p.threw
          THEN [res |-> WebhookResponse(500, FALSE, Undefined, p.message),
                apiCalls |-> p.apiCalls]
          ELSE [res |-> WebhookResponse(200, TRUE, p.ret, <<>>),
                apiCalls |-> p.apiCalls]
  ELSE [res |-> WebhookResponse(200, TRUE, Null, <<>>), apiCalls |-> <<>>]

\* One POST /api/webhook, with the environment it meets.
HandleWebhook ==
  /\ last = Idle
  /\ \E body \in WebhookBodies, apiKey \in BOOLEAN, api \in ApiOutcomes :
       /\ (apiKey /\ IsContentRequest(body.event) /\ body.data # Undefined)
            \/ api = "ok"
       /\ LET h == handleWebhook(body, apiKey, api)
          IN last' = [op |-> "webhook", body |-> body, apiKey |-> apiKey,
                      api |-> api, res |-> h.res, apiCalls |-> h.apiCalls]
  /\ UNCHANGED <<secret, docsId, credPath, logsDirExists, commitsLog,
                 processedLog, doc, initialized, calls>>

NextWebhook ==
  \/ HandleWebhook
  \/ Close

SpecWebhook == Init /\ [][NextWebhook]_vars

\* ------------------------------------------------------------- properties

IsGithub(o) == o.op = "github"

IsScript(o) == o.op = "processCommit"

\* The request got past the header check and the signature check.
ValidationPassed(o) ==
  /\ o.req.event # NoEvent
  /\ Truthy(secret) => (o.verify.called /\ ~o.verify.threw /\ o.verify.ret)

\* The signature header is the digest string of the received bytes under
\* the configured secret.
SignedOverBytes(req) == req.sig = Sign(secret, req.raw)

FilesUnchanged == commitsLog' = commitsLog /\ processedLog' = processedLog

\* C1: verifyGithubWebhook returns false and never throws when the secret
\* is unset, the signature header is absent or its length differs from the
\* digest string's; on a length mismatch the timing-safe comparator is not
\* invoked.
C1_VerifyNeverThrows ==
  (IsGithub(last) /\ last.verify.called
     /\ (~Truthy(secret) \/ ~SigTruthy(last.req.sig) \/ last.req.sig.len # DigestLen))
  => /\ ~last.verify.threw
     /\ ~last.verify.ret
     /\ (last.req.sig.len # DigestLen => ~last.verify.tse)

\* C2: the signature check is over the exact bytes received: a signature
\* that is correct for other bytes than the request's is rejected, also when
\* both byte sequences parse to the same object.
C2_SignatureOverExactBytes ==
  (IsGithub(last) /\ Truthy(secret) /\ last.req.event # NoEvent
     /\ last.req.sig.len = DigestLen /\ last.req.sig.mac.key = secret
     /\ last.req.sig.mac.msg # last.req.raw)
  => last.res.status = 401

\* C3: with a secret configured every request with an event header whose
\* signature does not verify is answered 401 without log write or doc sync;
\* without a secret no request is answered 401.
C3_BadSignatureIs401 ==
  (IsGithub(last) /\ last.req.event # NoEvent)
  => /\ (Truthy(secret) /\ ~SignedOverBytes(last.req))
          => (last.res.status = 401 /\ last.attempted = {} /\ ~last.sync.called)
     /\ ~Truthy(secret) => last.res.status # 401

\* C4: a request without an X-GitHub-Event header is answered 400 whatever
\* its body and signature, with no log write, no doc sync and no signature
\* check.
C4_MissingEventIs400 ==
  [][(IsGithub(last') /\ last'.req.event = NoEvent)
       => /\ last'.res.status = 400
          /\ ~last'.res.success
          /\ FilesUnchanged /\ doc' = doc /\ logsDirExists' = logsDirExists
          /\ last'.attempted = {} /\ ~last'.sync.called /\ ~last'.verify.called]_vars

C4_Witness ==
  /\ IsGithub(last) /\ last.req.event = NoEvent /\ last.res.status = 400
  /\ secret = "k1" /\ last.req.raw.obj = POne /\ last.req.sig = SigAbsent

\* C5: a validated push event whose commits list is empty or absent is
\* answered 200 and leaves the log files and the remote document unchanged.
C5_EmptyPushIsNoOp ==
  [][(IsGithub(last') /\ last'.req.event = "push"
        /\ Len(last'.req.raw.obj.commits) = 0)
       => /\ FilesUnchanged /\ doc' = doc /\ logsDirExists' = logsDirExists
          /\ last'.attempted = {} /\ ~last'.sync.called
          /\ ValidationPassed(last') => (last'.res.status = 200 /\ last'.res.success)]_vars

C5_Witness ==
  /\ IsGithub(last) /\ last.req.event = "push" /\ last.req.raw.obj = PNoCommits
  /\ last.res.status = 200 /\ secret = "k1" /\ docsId /\ credPath

\* C6: a validated request whose event type is not 'push' is answered 200
\* with success true and performs no log write and no doc sync.
C6_OtherEventIsAcknowledged ==
  [][(IsGithub(last') /\ ValidationPassed(last') /\ last'.req.event # "push")
       => /\ last'.res.status = 200
          /\ last'.res.success
          /\ FilesUnchanged /\ doc' = doc /\ logsDirExists' = logsDirExists
          /\ last'.attempted = {} /\ ~last'.sync.called]_vars

C6_Witness ==
  /\ IsGithub(last) /\ last.req.event = "ping" /\ last.req.raw.obj = POne
  /\ last.res.status = 200 /\ secret = "k1" /\ docsId /\ credPath

\* An exception reaches the handler's catch block: the comparator faults,
\* the push payload lacks a field the formatter reads, or a log write fails.
ExceptionRaised(o, dirExisted) ==
  \/ Truthy(secret) /\ SigTruthy(o.req.sig) /\ o.req.sig.len # DigestLen
  \/ /\ ValidationPassed(o)
     /\ o.req.event = "push"
     /\ Len(o.req.raw.obj.commits) > 0
     /\ \/ PayloadThrows(o.req.raw.obj)
        \/ o.fs = "appendFails"
        \/ o.fs = "mkdirFails" /\ ~dirExisted

\* C7: every exception raised while a request is processed (verification
\* fault, malformed push payload, log write failure) ends in a 500 response
\* with success false and the error in the body; such a request is never
\* answered 200 and every request gets a response.
C7_ExceptionIs500 ==
  [][IsGithub(last')
       => /\ last'.res.status \in {200, 400, 401, 500}
          /\ (last'.req.event # NoEvent /\ ExceptionRaised(last', logsDirExists))
               => /\ last'.res.status = 500
                  /\ ~last'.res.success
                  /\ last'.res.error # "none"
                  /\ last'.res.error = last'.raised
          /\ last'.res.status = 500 => last'.raised # "none"]_vars

C7_Witness ==
  /\ IsGithub(last) /\ last.res.status = 500 /\ last.res.error = "append"
  /\ last.req.raw.obj = PTwo /\ Len(commitsLog) = 1

\* C8: POST /api/webhook/github reaches the GitHub webhook handler and
\* POST /api/webhook the generic handler; the former is never answered by
\* the 404 fallback.
C8_GithubRouteMounted ==
  (last.op = "dispatch" /\ last.method = "POST")
  => /\ last.path = <<"api", "webhook", "github">>
          => (last.handler = "handleGithubWebhook" /\ last.status # 404)
     /\ last.path = <<"api", "webhook">> => last.handler = "handleWebhook"

\* The store is reached: the operation got as far as its log append.
StoreReached(o) ==
  \/ /\ IsGithub(o) /\ ValidationPassed(o) /\ o.req.event = "push"
     /\ Len(o.req.raw.obj.commits) > 0 /\ ~PayloadThrows(o.req.raw.obj)
  \/ IsScript(o) /\ Truthy(Arg(o.argv, 1)) /\ o.git.hangs = "none"

BothSinks == {"commits.log", "processed-commits.log"}

C10_AppendOnly ==
  [][/\ IsPrefix(commitsLog, commitsLog')
     /\ IsPrefix(processedLog, processedLog')
     /\ (IsGithub(last') /\ last'.res.status # 200) => FilesUnchanged
     /\ (IsScript(last') /\ last'.exit # 0) => FilesUnchanged]_vars

C10_Witness ==
  /\ IsGithub(last) /\ last.res.status = 200
  /\ Len(commitsLog) = 2 /\ commitsLog[1] # commitsLog[2]

\* The run got past the argument check and no git call blocked.
Collected(o) == IsScript(o) /\ Truthy(Arg(o.argv, 1)) /\ o.git.hangs = "none"

\* What the changed-file list of the sample git output parses to.
ParsedSample ==
  << [status |-> "A", file |-> "new.txt"], [status |-> "M", file |-> "mod.txt"],
     [status |-> "D", file |-> "old.txt"], [status |-> "R100", file |-> "a.txt"] >>

\* The log append of the run is not made to fail.
FsAllows(o, dirExisted) == o.fs = "ok" \/ (o.fs = "mkdirFails" /\ dirExisted)

\* C11: the three git calls fail independently: for every combination of
\* failing calls all three are issued, each failed call is replaced by its
\* own fallback (working directory, empty file list, 'Diff unavailable'),
\* the results of the others are kept, and the record is built and logged.
C11_IndependentFallbacks ==
  [][Collected(last')
       => /\ last'.gitCalls = <<"rev-parse", "diff-tree", "show">>
          /\ last'.repoRoot = (IF last'.git.root THEN "toplevel" ELSE "cwd")
          /\ last'.commitInfo.filesChanged
               = (IF last'.git.files THEN ParsedSample ELSE <<>>)
          /\ last'.commitInfo.diff
               = (IF last'.git.diff THEN "diff --git" ELSE "Diff unavailable")
          /\ last'.commitInfo.id = last'.argv[1]
          /\ last'.attempted # {} <=> FsAllows(last', logsDirExists) \/ last'.fs = "appendFails"
          /\ FsAllows(last', logsDirExists)
               => /\ Len(processedLog') = Len(processedLog) + 1
                  /\ processedLog'[Len(processedLog')].json = last'.commitInfo
                  /\ last'.exit = 0]_vars

C11_Witness ==
  /\ Collected(last) /\ last.exit = 0
  /\ ~last.git.root /\ last.git.files /\ ~last.git.diff
  /\ Len(processedLog) = 1 /\ processedLog[1].json.diff = "Diff unavailable"
  /\ Len(processedLog[1].json.filesChanged) = 4

\* C19: a git call that never returns does not hang commit processing:
\* every run of processCommit ends with an exit status.
C19_GitCallsBounded ==
  IsScript(last) => last.exit \in {0, 1}

\* A validated push with at least one commit and a well-formed payload.
PushWithCommits(o) ==
  /\ IsGithub(o) /\ ValidationPassed(o) /\ o.req.event = "push"
  /\ Len(o.req.raw.obj.commits) > 0 /\ ~PayloadThrows(o.req.raw.obj)

\* C20: for a push with at least one commit the handler stores, then syncs,
\* then responds: after a failed append the sync is never attempted and the
\* response is 500; after a successful append the response is 200 and the
\* entry stays in the log whether the sync succeeds, returns false or the
\* document API throws.
C20_StoreThenSync ==
  [][PushWithCommits(last')
       => /\ ~FsAllows(last', logsDirExists)
               => /\ ~last'.sync.called
                  /\ last'.sync.requests = <<>>
                  /\ last'.res.status = 500
                  /\ commitsLog' = commitsLog
                  /\ doc' = doc
          /\ FsAllows(last', logsDirExists)
               => /\ last'.res.status = 200
                  /\ Len(commitsLog') = Len(commitsLog) + 1
                  /\ SubSeq(commitsLog', 1, Len(commitsLog)) = commitsLog
                  /\ last'.sync.called <=> (docsId /\ credPath)
                  /\ (last'.sync.called /\ last'.docApi = "ok")
                       => /\ last'.sync.ret
                          /\ Len(doc') = Len(doc) + 1
                          /\ doc'[Len(doc)] = commitsLog'[Len(commitsLog')]
                  /\ (last'.sync.called /\ last'.docApi # "ok" /\ ~initialized)
                       => (~last'.sync.ret /\ doc' = doc)
                  /\ ~last'.sync.ret => doc' = doc]_vars

C20_Witness ==
  /\ PushWithCommits(last) /\ last.res.status = 200
  /\ last.sync.called /\ ~last.sync.ret /\ last.docApi = "getThrows"
  /\ Len(commitsLog) = 1 /\ doc = <<NL>>

\* The symbol the plaintext layout prescribes for a status code.
LayoutSymbol(status) ==
  CASE status = "A" -> "+"
    [] status = "D" -> "-"
    [] OTHER -> "~"

\* C16: the formatter emits exactly one changed-file line per entry of
\* filesChanged, in the input order, each with its status symbol: '+' for
\* A, '-' for D, '~' for every other code; the block is complete for an empty
\* file list and for an empty diff.
C16_OneLinePerFile ==
  last.op = "format"
  => LET files == last.commitInfo.filesChanged
         n == Len(files)
         out == last.out
     IN /\ Len(out) = 13 + n
        /\ out[8] = <<"============ CHANGED FILES ============">>
        /\ \A i \in 1..n : out[8 + i] = <<LayoutSymbol(files[i].status), files[i].file>>
        /\ out[9 + n] = <<"">>
        /\ out[10 + n] = <<"============ DIFF OUTPUT ============">>
        /\ out[11 + n] = <<last.commitInfo.diff>>
        /\ out[12 + n] = <<"===========================================">>

C16_Witness ==
  /\ last.op = "format"
  /\ Len(last.commitInfo.filesChanged) = 2
  /\ last.commitInfo.filesChanged[1].status = "?"
  /\ last.commitInfo.filesChanged[2].status = "A"
  /\ last.commitInfo.diff = ""
  /\ last.out[9] = <<"~", last.commitInfo.filesChanged[1].file>>
  /\ last.out[10] = <<"+", last.commitInfo.filesChanged[2].file>>

IsWebhook(o) == o.op = "webhook"

\* C13 as stated: a request without an event field is answered 400, a request
\* whose event is any value other than 'content_request' is answered 200 with
\* data null, and neither calls the completion API.
C13_OtherEventIs200 ==
  IsWebhook(last)
  => /\ last.body.event = Undefined
          => (last.res.status = 400 /\ last.apiCalls = <<>>)
     /\ (last.body.event # Undefined /\ last.body.event # Str("content_request"))
          => (last.res.status = 200 /\ last.res.data = Null /\ last.apiCalls = <<>>)

\* C13: a request whose event is omitted or falsy (the empty string) is
\* answered 400, a request whose event is any other value than
\* 'content_request' is answered 200 with data null, and neither calls the
\* completion API.
C13_FalsyEventIs400 ==
  IsWebhook(last)
  => /\ last.body.event \in {Undefined, Str("")}
          => (last.res.status = 400 /\ ~last.res.success /\ last.apiCalls = <<>>)
     /\ last.body.event \notin {Undefined, Str(""), Str("content_request")}
          => /\ last.res.status = 200
             /\ last.res.success
             /\ last.res.data = Null
             /\ last.apiCalls = <<>>

C13_Witness ==
  /\ IsWebhook(last)
  /\ last.body.event = Str("user_signup")
  /\ last.body.data # Undefined
  /\ last.apiKey
  /\ last.res.status = 200
  /\ last.res.data = Null
  /\ last.apiCalls = <<>>

\* The value forwarded for a field: the supplied one, the default only when
\* the field is absent.
Supplied(data, field, default) ==
  IF data = Undefined THEN default
  ELSE IF data[field] = Undefined THEN default ELSE data[field]

\* C14: every content_request that meets a working completion API is answered
\* 200, data present or omitted, each forwarded parameter is the supplied
\* value, or the default only when it is absent, and model_used is the default
\* model when data.model is omitted.
C14_SuppliedOrDefault ==
  (IsWebhook(last) /\ last.body.event = Str("content_request")
     /\ last.apiKey /\ last.api = "ok")
  => LET data == last.body.data
     IN /\ last.res.status = 200
        /\ Len(last.apiCalls) = 1
        /\ last.apiCalls[1].user = Supplied(data, "prompt", DefaultPrompt)
        /\ last.apiCalls[1].model = Supplied(data, "model", DefaultModel)
        /\ last.apiCalls[1].temperature = Supplied(data, "temperature", Num(7))
        /\ last.apiCalls[1].max_tokens = Supplied(data, "max_tokens", Num(500))
        /\ Supplied(data, "model", DefaultModel) = DefaultModel
             => last.res.data.model_used = DefaultModel

\* C15: a content_request calls the completion API at most once; a failed
\* call is answered 500 with the error message after that single call, and
\* without OPENAI_API_KEY the answer is 500 with no call at all.
C15_AtMostOneCall ==
  (IsWebhook(last) /\ last.body.event = Str("content_request"))
  => /\ Len(last.apiCalls) <= 1
     /\ (last.apiKey /\ last.body.data # Undefined /\ last.api = "fails")
          => /\ Len(last.apiCalls) = 1
             /\ last.res.status = 500
             /\ ~last.res.success
             /\ last.res.error = <<"Failed to generate AI content", "completion API error">>
     /\ ~last.apiKey
          => /\ last.apiCalls = <<>>
             /\ last.res.status = 500
             /\ ~last.res.success
             /\ last.res.error # <<>>

C15_Witness ==
  /\ IsWebhook(last)
  /\ last.body.event = Str("content_request")
  /\ last.apiKey
  /\ last.api = "fails"
  /\ Len(last.apiCalls) = 1
  /\ last.res.status = 500

\* The position of a call's text in the document.
Pos(c) == CHOOSE i \in 1..Len(doc) : doc[i] = calls[c].content

Returned(c) == calls[c].pc = "done"

\* C12: without the document id or without the credential path every
\* appendToDocument call that returns returns false, no call ever has a
\* document-API request out, and the document is never touched.
C12_DisabledReturnsFalse ==
  (~docsId \/ ~credPath)
  => /\ \A c \in CallIds :
          /\ calls[c].requests = <<>>
          /\ calls[c].pc \in {"new", "afterInit", "done"}
          /\ Returned(c) => ~calls[c].ret
     /\ doc = <<NL>>

C12_Witness ==
  /\ ~docsId
  /\ credPath
  /\ \E c \in CallIds :
       /\ Returned(c)
       /\ calls[c].built
       /\ ~calls[c].ret
       /\ calls[c].requests = <<>>
  /\ \A c \in CallIds : Returned(c)

\* Two calls that read the same end offset and both inserted, a first.
Raced(a, b) ==
  /\ calls[a].order > 0
  /\ calls[b].order > calls[a].order
  /\ calls[a].endIndex = calls[b].endIndex

\* C17: when two calls have read the same end offset before either inserted,
\* the later insert was issued at an offset that was no longer the document's
\* end, and its text lies before the earlier call's text, not after it.
C17_StaleOffset ==
  \A a, b \in CallIds :
    Raced(a, b) => (~calls[b].atEnd /\ Pos(b) < Pos(a))

C17_Witness ==
  /\ Raced(1, 2)
  /\ calls[1].ret
  /\ calls[2].ret
  /\ doc = <<TextOf(2), TextOf(1), NL>>

Started(c) == calls[c].pc # "new"

\* C18: no client exists before the first call; over every interleaving the
\* client is built at most once, and initialized says that it was; a call
\* skips initialize only when another call has built the client, so a failed
\* initialization is tried again by the next call.
C18_BuiltAtMostOnce ==
  /\ (\A c \in CallIds : ~Started(c)) => ~initialized
  /\ Cardinality({c \in CallIds : calls[c].built}) <= 1
  /\ initialized <=> (\E c \in CallIds : calls[c].built)
  /\ \A c \in CallIds :
       /\ calls[c].built => calls[c].initTried
       /\ Started(c) =>
            (calls[c].initTried \/ \E d \in CallIds \ {c} : calls[d].built)

C18_Witness ==
  \E a, b, c \in CallIds :
    /\ calls[a].initTried /\ ~calls[a].built /\ Returned(a)
    /\ calls[b].initTried /\ calls[b].built
    /\ Started(c) /\ ~calls[c].initTried
    /\ initialized

\* The run was started without a commit id.
NoCommitId(o) == IsScript(o) /\ ~Truthy(Arg(o.argv, 1))

\* C21: processCommit without a commit id exits 1 before any git call, log
\* write or doc sync; with one, the doc sync is attempted only after the
\* JSON entry is in processed-commits.log, a failed append exits 1 with no
\* sync attempted, and a failed or unconfigured sync leaves the appended
\* entry in place and the exit status 0.
C21_LogThenSync ==
  [][IsScript(last')
       => /\ NoCommitId(last')
               => /\ last'.exit = 1
                  /\ last'.gitCalls = <<>>
                  /\ last'.attempted = {}
                  /\ ~last'.sync.called
                  /\ last'.sync.requests = <<>>
                  /\ processedLog' = processedLog
                  /\ doc' = doc
          /\ (last'.sync.called \/ last'.sync.requests # <<>> \/ doc' # doc)
               => /\ Len(processedLog') = Len(processedLog) + 1
                  /\ processedLog'[Len(processedLog')].json = last'.commitInfo
          /\ (Collected(last') /\ ~FsAllows(last', logsDirExists))
               => /\ last'.exit = 1
                  /\ ~last'.sync.called
                  /\ last'.sync.requests = <<>>
                  /\ processedLog' = processedLog
                  /\ doc' = doc
          /\ (Collected(last') /\ FsAllows(last', logsDirExists))
               => /\ last'.exit = 0
                  /\ Len(processedLog') = Len(processedLog) + 1
                  /\ SubSeq(processedLog', 1, Len(processedLog)) = processedLog
                  /\ processedLog'[Len(processedLog')].json = last'.commitInfo
                  /\ last'.sync.called <=> (docsId /\ credPath)
                  /\ ~last'.sync.ret => doc' = doc
                  /\ last'.sync.ret => Len(doc') = Len(doc) + 1]_vars

C21_Witness ==
  /\ Collected(last)
  /\ last.fs = "ok"
  /\ last.sync.called
  /\ ~last.sync.ret
  /\ last.docApi = "updateThrows"
  /\ last.sync.requests = <<"get", "batchUpdate">>
  /\ last.exit = 0
  /\ Len(processedLog) = 1
  /\ processedLog[1].json = last.commitInfo
  /\ doc = <<NL>>

====
